---- MODULE Spec2Model ----
(***************************************************************************)
(* Session multiplexer of the Mixed Reality Extension SDK: the Session     *)
(* (adapters/multipeer/session.ts), its Clients (adapters/multipeer/       *)
(* client.ts) and the Protocol base class (protocols/protocol.ts).         *)
(*                                                                         *)
(* Spec          a connected peer-authoritative session and its clients    *)
(* SpecAppAuth   the same for a session with peerAuthoritative = false     *)
(* SpecConnect   Session.connect() and the clients that join afterwards    *)
(* SpecQueue     one client's message queue and its drain waves            *)
(* SpecProtocol  one connection's send / reply / timeout machinery         *)
(* SpecDrain     drainPromises() on a connection, timer callbacks run      *)
(* SpecAssets    the session's asset and asset-creator caches              *)
(* SpecActors    the session's actor cache (transforms)                    *)
(* SpecReserve   the actor cache with reserved actors, parents and         *)
(*               exclusive users                                           *)
(* SpecMerge     one update deep-merged into cached content, twice         *)
(* SpecFanout    clients constructed, joined and sent to by sendToClients  *)
(* SpecJoined    clients constructed, joined and awaited by joinedOrLeft   *)
(* SpecRecv      Spec with messages arriving from the clients              *)
(***************************************************************************)
EXTENDS Integers, Sequences, FiniteSets, TLC

\* ------------------------------------------------------------------ bounds
MaxClients == 3
ClientIds == 1..MaxClients
\* clients that join under SpecConnect
ConnectClients == 1
\* completion events emitted by a protocol that is no longer the client's
\* current protocol (a repeated or late emission)
MaxStrayEvents == 1

\* queueMessage calls under SpecQueue
MaxQueued == 3
\* payload types the drain predicates tell apart
PayloadTypes == {"create-animation", "actor-update"}

\* sendMessage calls under SpecProtocol
MaxMsgs == 2
MsgIds == 1..MaxMsgs
\* replies the peer sends over one connection
MaxReplies == 2
\* sendMessage's promise argument: absent, with a reject callback, without
PromiseKinds == {"none", "reject", "noreject"}
\* sendMessage's timeoutSeconds argument (0 also stands for undefined)
TimeoutSeconds == {0, 5}
\* protocols constructed in turn over one connection (handshake, sync, ...)
MaxPhases == 2
\* middlewares with a beforeSend callback registered on a protocol
NumMiddlewares == 2
\* what the beforeSend callbacks of the chain do with one message
Chains == [1..NumMiddlewares -> {"pass", "drop"}]

\* asset ids, creator message ids and container ids the app uses
AssetIds == {"A", "B"}
CreatorIds == {"M1", "M2"}
Containers == {"c1", "c2"}
\* definitions of 'create-asset' messages and the asset parts of updates
Definitions == {[name |-> 1, color |-> 0]}
Patches == {[name |-> 2, color |-> 0], [name |-> 0, color |-> 2]}
\* actor ids
ActorIds == {"a1", "a2"}
\* content of a cached payload and of an update: a primitive field, a
\* nested object with a primitive field (0 = absent), and an array field
Contents == [prim : {0, 1, 2}, nested : [prim : {0, 1, 2}], arr : {<<>>, <<1>>, <<1, 2>>}]
NoContent == [prim |-> 0, nested |-> [prim |-> 0], arr |-> <<>>]
\* deepmerge is called without options, so arrays are combined by the
\* library's default: concatenation, or in its first major version an
\* index-wise merge that pushes the elements the target does not hold
ArrayMerges == {"concat", "index"}

\* client.userId: NoUser stands for undefined
NoUser == 0
UserIds == {NoUser, 1}
\* exclusiveToUser of an actor payload
ActorUsers == {NoUser, 1, 2}

VARIABLES
    peerAuthoritative,  \* Session._peerAuthoritative
    orderSequence,      \* Client.orderSequence (static)
    order,              \* Client._order, -1 before construction
    clientSet,          \* Session._clientSet, keys in insertion order
    protocol,           \* Client._protocol, by class name; "none" = undefined
    plistening,         \* the client's current protocol is listening on its conn
    csession,           \* Client._session is defined
    connListening,      \* Client.leave is registered on conn 'close'/'error'
    connOpen,           \* close() has not been called on the client's conn
    closeEmits,         \* number of 'close' events the client has emitted
    userId,             \* Client.userId
    joinPc,             \* Session.join(client): "none", "awaiting", "done"
    syncCreated,        \* a ClientSync has been constructed for the client
    statsListeners,     \* forwarding listener pairs on the client's statsTracker
    electErrors,        \* errors logged by setAuthoritativeClient
    userLeftSent,       \* 'user-left' payloads sent to the app, per client
    strayEvents,        \* stray completion events emitted so far
    execListening,      \* ClientExecution instances of the client listening on its conn
    recvRegistered,     \* Session.join has registered recvFromClient on the client
    sessProtocol,       \* Session._protocol, by class name
    sessPc,             \* Session.connect(): "init", "handshake", "sync", "done"
    sessFailed,         \* session phases whose promise was rejected
    appListening,       \* Session.disconnect is registered on the app conn
    appConnOpen,        \* close() has not been called on the app conn
    sessClosed,         \* the session has emitted 'close'
    clientCap,          \* number of clients the environment brings to the session
    appSentClosed,      \* a message was handed to the app conn after its close()
    \* Client.queueMessage / filterQueuedMessages
    queue,              \* Client._queuedMessages
    msgSeq,             \* number of queueMessage calls so far
    accepted,           \* messages queueMessage has pushed, in order, per client
    sentBatches,        \* per client, the batches handed to sendMessage by the waves
    \* Protocol over one connection
    pConnOpen,          \* close() has not been called on the conn
    pCloseEmitted,      \* the conn has emitted 'close'
    pListening,         \* onReceive / onClose are registered on the conn
    promises,           \* conn.promises: "none" absent, else the promise kind
    timer,              \* reply timeout: "none", "armed", "cleared", "fired"
    outcome,            \* what became of each message and its promise
    timeoutOf,          \* timeoutSeconds of the messages that passed the middlewares
    connSent,           \* ids handed to conn.send
    replies,            \* replies received per request id
    nextMsg,            \* messages sendMessage has been called with
    pPhase,             \* which protocol, in order of construction, the conn has now
    sentBy,             \* the protocol sendMessage recorded the entry with
    resolvedBy,         \* the protocol whose handleReplyMessage resolved the promise
    mwRan,              \* beforeSend callbacks run for the message
    mwDropAt,           \* position of the middleware that dropped it, 0 if none
    drainPc,            \* drainPromises(): "idle", "returned", "polling", "resolved"
    settles,            \* times the promise passed with the message was resolved or rejected
    unexpected,         \* replies to the message logged as unexpected
    \* Session caches
    assetSet,           \* Session._assetSet
    assetCreatorSet,    \* Session._assetCreatorSet
    cacheOp,            \* the cache operation called last
    actorSet,           \* Session._actorSet
    \* deepmerge of an update into cached content
    mergeTarget,        \* the cached content (an actor, an asset definition)
    mergePatch,         \* the content of the update
    mergeLog,           \* the cached content after each application of the update
    arrayMerge,         \* how the installed deepmerge combines two arrays
    \* calls observed
    fan,                \* the last Session.sendToClients call and what it sent
    jol,                \* Client.joinedOrLeft(): its promise and what test() saw
    forwarded           \* where each client was when sendToApp got a message of its

clientVars == <<orderSequence, order, clientSet, protocol, plistening, csession,
                connListening, connOpen, closeEmits, userId, joinPc, syncCreated,
                statsListeners, electErrors, userLeftSent, strayEvents,
                execListening, recvRegistered>>
sessVars == <<peerAuthoritative, sessProtocol, sessPc, sessFailed, appListening,
              appConnOpen, sessClosed, clientCap, appSentClosed>>
queueVars == <<queue, msgSeq, accepted, sentBatches>>
protoVars == <<pConnOpen, pCloseEmitted, pListening, promises, timer, outcome,
               timeoutOf, connSent, replies, nextMsg, pPhase, sentBy, resolvedBy,
               mwRan, mwDropAt, drainPc, settles, unexpected>>
cacheVars == <<assetSet, assetCreatorSet, cacheOp, actorSet, mergeTarget,
               mergePatch, mergeLog, arrayMerge>>
sendVars == <<fan, jol, forwarded>>
vars == <<clientVars, sessVars, queueVars, protoVars, cacheVars, sendVars>>

\* ------------------------------------------------------------- helpers
\* this.actorSet[id] undefined
AbsentActor ==
    [present |-> FALSE, updated |-> FALSE, type |-> "none",
     exclusiveToUser |-> NoUser, replaced |-> FALSE,
     parentId |-> "none", actorExclusive |-> NoUser,
     app |-> FALSE, local |-> FALSE,
     position |-> FALSE, rotation |-> FALSE, scale |-> FALSE]

\* a message envelope: id (0 = unset) and one more envelope-level field
NoEnvelope == [id |-> 0, tag |-> 0]

\* before any sendToClients call
NoFan ==
    [called |-> FALSE, set |-> <<>>, filter |-> {}, rewrite |-> {},
     before |-> NoEnvelope, after |-> NoEnvelope, sent |-> <<>>]

\* joinedOrLeft() not called
NoJoinedOrLeft == [pc |-> "idle", protocol |-> "none", left |-> FALSE, joined |-> FALSE]

\* an asset definition or the asset part of an asset-update: 0 = field absent
NoDef == [name |-> 0, color |-> 0]

AbsentCreator ==
    [present |-> FALSE, type |-> "none", containerId |-> "none", definition |-> NoDef]

AbsentAsset ==
    [present |-> FALSE, creatorMessageId |-> "none", hasUpdate |-> FALSE, update |-> NoDef]

Range(s) == {s[i] : i \in 1..Len(s)}

Remove(s, c) == SelectSeq(s, LAMBDA x : x # c)

\* Array.prototype.sort((a, b) => a.order - b.order): stable insertion by order
RECURSIVE InsertByOrder(_, _)
InsertByOrder(s, c) ==
    IF s = <<>> THEN <<c>>
    ELSE IF order[c] < order[Head(s)] THEN <<c>> \o s
    ELSE <<Head(s)>> \o InsertByOrder(Tail(s), c)

RECURSIVE SortByOrder(_)
SortByOrder(s) ==
    IF s = <<>> THEN <<>>
    ELSE InsertByOrder(SortByOrder(SubSeq(s, 1, Len(s) - 1)), s[Len(s)])

\* Array.prototype.findIndex(client => client.id === id), zero based, -1 if absent
FindIndex(s, c) ==
    IF c \in Range(s)
    THEN (CHOOSE i \in 1..Len(s) : s[i] = c /\ \A j \in 1..(i - 1) : s[j] # c) - 1
    ELSE -1

\* Session.clients leaving Object.values in insertion order
ClientsOfInsertionOrder(cs) == cs

\* Session.clients over a client set cs
ClientsOf(cs) == SortByOrder(cs)

Clients == ClientsOf(clientSet)

\* Client.authoritative testing that the client is found at all (0 <= index)
AuthoritativeInAnyIndex(cs, c) == 0 <= FindIndex(ClientsOf(cs), c)

\* Client.authoritative over a client set cs; the getter dereferences
\* this.session, so it throws a TypeError when the client has no session.
AuthoritativeIn(cs, c) == 0 = FindIndex(ClientsOf(cs), c)

Authoritative(c) == AuthoritativeIn(clientSet, c)

\* Session.authoritativeClient over (cs, sess): [threw, found, client].
\* find() evaluates client.authoritative on each client in order until one is true.
AuthoritativeClientIn(cs, sess) ==
    LET cl == ClientsOf(cs)
        hits == {i \in 1..Len(cl) : sess[cl[i]] /\ AuthoritativeIn(cs, cl[i])}
        first == IF hits = {} THEN Len(cl) + 1
                 ELSE CHOOSE i \in hits : \A j \in hits : i <= j
        threw == \E j \in 1..Len(cl) : j < first /\ ~sess[cl[j]]
    IN [threw |-> threw,
        found |-> ~threw /\ hits # {},
        client |-> IF ~threw /\ hits # {} THEN cl[first] ELSE 0]

\* Session.setAuthoritativeClient(clientId) over the client set cs.
\* Line 165 logs when the client is unknown and goes on; line 172 then calls
\* newAuthority.setAuthoritative(true): a TypeError when newAuthority is
\* undefined, and a TypeError too when it is a Client, which defines the
\* authoritative getter only and no setAuthoritative method. The listener
\* installation of lines 178-193 is therefore never reached.
SetAuthoritativeClient(cs, c) ==
    [logged |-> c \notin Range(cs), threw |-> TRUE, installed |-> 0]

\* Session.leave deleting the client only once the authoritative check passed
SessionLeaveDeleteLate(cs, sess, c) ==
    LET client == c \in Range(cs)
        cs1 == Remove(cs, c)
        sendThrows == client /\ userId[c] # NoUser /\ sessProtocol = "none"
        sends == client /\ userId[c] # NoUser /\ ~sendThrows
        authThrows == client /\ ~sendThrows /\ ~sess[c]
        threw == sendThrows \/ authThrows
    IN [clientSet |-> IF threw THEN cs ELSE cs1,
        userLeft |-> sends,
        closeApp |-> ~threw /\ Len(cs1) = 0]

\* Session.leave sending 'user-left' without looking the client up in the set
SessionLeaveUnknownClient(cs, sess, c) ==
    LET client == c \in Range(cs)
        cs1 == Remove(cs, c)
        sendThrows == userId[c] # NoUser /\ sessProtocol = "none"
        sends == userId[c] # NoUser /\ ~sendThrows
        authThrows == client /\ ~sendThrows /\ ~sess[c]
        isAuth == client /\ ~sendThrows /\ ~authThrows /\ AuthoritativeIn(cs1, c)
        electThrows == isAuth /\ Len(cs1) > 0
        threw == sendThrows \/ authThrows \/ electThrows
    IN [clientSet |-> cs1,
        userLeft |-> sends,
        closeApp |-> ~threw /\ Len(cs1) = 0]

\* Session.leave(clientId) over (cs, sess): the new client set, whether
\* 'user-left' was sent, and whether the app conn was closed. Everything
\* runs inside try { } catch { }: a throw skips the rest of the body.
SessionLeave(cs, sess, c) ==
    LET client == c \in Range(cs)
        cs1 == Remove(cs, c)
        sendThrows == client /\ userId[c] # NoUser /\ sessProtocol = "none"
        sends == client /\ userId[c] # NoUser /\ ~sendThrows
        authThrows == client /\ ~sendThrows /\ ~sess[c]
        isAuth == client /\ ~sendThrows /\ ~authThrows /\ AuthoritativeIn(cs1, c)
        \* clients.find(c => c.isJoined()): Client defines no isJoined
        electThrows == isAuth /\ Len(cs1) > 0
        threw == sendThrows \/ authThrows \/ electThrows
    IN [clientSet |-> cs1,
        userLeft |-> sends,
        closeApp |-> ~threw /\ Len(cs1) = 0]

\* Protocol.run() once the phase promise has settled: a rejection is caught,
\* handed to this.reject(e), and run() returns normally.
ProtocolRun(rejected) == [threw |-> FALSE, rejectCalled |-> rejected]

\* ------------------------------------------------------------------ Init
InitCommon ==
    /\ orderSequence = 0
    /\ order = [c \in ClientIds |-> -1]
    /\ clientSet = <<>>
    /\ protocol = [c \in ClientIds |-> "none"]
    /\ plistening = [c \in ClientIds |-> FALSE]
    /\ csession = [c \in ClientIds |-> FALSE]
    /\ connListening = [c \in ClientIds |-> FALSE]
    /\ connOpen = [c \in ClientIds |-> FALSE]
    /\ closeEmits = [c \in ClientIds |-> 0]
    /\ userId = [c \in ClientIds |-> NoUser]
    /\ joinPc = [c \in ClientIds |-> "none"]
    /\ syncCreated = [c \in ClientIds |-> FALSE]
    /\ statsListeners = [c \in ClientIds |-> 0]
    /\ electErrors = 0
    /\ userLeftSent = [c \in ClientIds |-> 0]
    /\ strayEvents = 0
    /\ execListening = [c \in ClientIds |-> 0]
    /\ recvRegistered = [c \in ClientIds |-> FALSE]
    /\ fan = NoFan
    /\ jol = [c \in ClientIds |-> NoJoinedOrLeft]
    /\ forwarded = {}
    /\ sessFailed = {}
    /\ appListening = TRUE
    /\ appConnOpen = TRUE
    /\ sessClosed = FALSE
    /\ appSentClosed = FALSE
    /\ queue = [c \in ClientIds |-> <<>>]
    /\ msgSeq = 0
    /\ accepted = [c \in ClientIds |-> <<>>]
    /\ sentBatches = [c \in ClientIds |-> <<>>]
    /\ pConnOpen = TRUE
    /\ pCloseEmitted = FALSE
    /\ pListening = TRUE
    /\ promises = [m \in MsgIds |-> "none"]
    /\ timer = [m \in MsgIds |-> "none"]
    /\ outcome = [m \in MsgIds |-> "unsent"]
    /\ timeoutOf = [m \in MsgIds |-> 0]
    /\ connSent = {}
    /\ replies = [m \in MsgIds |-> 0]
    /\ nextMsg = 0
    /\ pPhase = 1
    /\ sentBy = [m \in MsgIds |-> 0]
    /\ resolvedBy = [m \in MsgIds |-> 0]
    /\ mwRan = [m \in MsgIds |-> 0]
    /\ mwDropAt = [m \in MsgIds |-> 0]
    /\ drainPc = "idle"
    /\ settles = [m \in MsgIds |-> 0]
    /\ unexpected = [m \in MsgIds |-> 0]
    /\ assetSet = [a \in AssetIds |-> AbsentAsset]
    /\ assetCreatorSet = [id \in CreatorIds |-> AbsentCreator]
    /\ cacheOp = "none"
    /\ actorSet = [a \in ActorIds |-> AbsentActor]
    /\ mergeLog = <<>>

\* The session after a connect() whose phases both resolved
InitConnected ==
    /\ InitCommon
    /\ mergeTarget = NoContent
    /\ mergePatch = NoContent
    /\ arrayMerge = "concat"
    /\ sessProtocol = "SessionExecution"
    /\ sessPc = "done"
    /\ clientCap = MaxClients

Init ==
    /\ InitConnected
    /\ peerAuthoritative = TRUE

InitAppAuth ==
    /\ InitConnected
    /\ peerAuthoritative = FALSE

\* The session as constructed, before connect()
InitConnect ==
    /\ InitCommon
    /\ mergeTarget = NoContent
    /\ mergePatch = NoContent
    /\ arrayMerge = "concat"
    /\ peerAuthoritative \in BOOLEAN
    /\ sessProtocol = "none"
    /\ sessPc = "init"
    /\ clientCap = ConnectClients

\* ------------------------------------------------------- session actions
\* Session.connect() up to the first await: new SessionHandshake, run()
SessionConnect ==
    /\ sessPc = "init"
    /\ sessProtocol' = "SessionHandshake"
    /\ sessPc' = "handshake"
    /\ UNCHANGED <<peerAuthoritative, sessFailed, appListening, appConnOpen,
                   sessClosed, clientCap, appSentClosed>>
    /\ UNCHANGED clientVars
    /\ UNCHANGED <<queueVars, protoVars, cacheVars, sendVars>>

\* Session.disconnect()
Disconnect ==
    /\ appListening' = FALSE
    /\ appConnOpen' = FALSE
    /\ sessClosed' = TRUE

\* Session.connect() resumed after `await handshake.run()` / `await sync.run()`,
\* the phase promise having been resolved (ok) or rejected (~ok).
SessionPhaseSettled ==
    /\ sessPc \in {"handshake", "sync"}
    /\ \E ok \in BOOLEAN :
        LET r == ProtocolRun(~ok) IN
        /\ sessFailed' = IF ok THEN sessFailed ELSE sessFailed \cup {sessPc}
        /\ IF r.threw
           THEN /\ Disconnect
                /\ sessPc' = "done"
                /\ UNCHANGED sessProtocol
           ELSE /\ sessProtocol' = IF sessPc = "handshake" THEN "SessionSync"
                                   ELSE "SessionExecution"
                /\ sessPc' = IF sessPc = "handshake" THEN "sync" ELSE "done"
                /\ UNCHANGED <<appListening, appConnOpen, sessClosed>>
    /\ UNCHANGED <<peerAuthoritative, clientCap, appSentClosed>>
    /\ UNCHANGED clientVars
    /\ UNCHANGED <<queueVars, protoVars, cacheVars, sendVars>>

\* The app conn emits 'close' or 'error': Session.disconnect
AppTransportEvent ==
    /\ appListening
    /\ \E ev \in {"close", "error"} : Disconnect
    /\ UNCHANGED <<peerAuthoritative, sessProtocol, sessPc, sessFailed, clientCap,
                   appSentClosed>>
    /\ UNCHANGED clientVars
    /\ UNCHANGED <<queueVars, protoVars, cacheVars, sendVars>>

\* -------------------------------------------------------- client actions
\* new Client(conn) followed by Session.join(client) up to `await client.join`
NewClient(c) ==
    /\ sessPc = "done"
    /\ orderSequence < clientCap
    /\ c = orderSequence + 1
    /\ order[c] = -1
    /\ order' = [order EXCEPT ![c] = orderSequence]
    /\ orderSequence' = orderSequence + 1
    /\ connListening' = [connListening EXCEPT ![c] = TRUE]
    /\ connOpen' = [connOpen EXCEPT ![c] = TRUE]
    /\ clientSet' = Append(clientSet, c)
    /\ csession' = [csession EXCEPT ![c] = TRUE]
    /\ protocol' = [protocol EXCEPT ![c] = "ClientHandshake"]
    /\ plistening' = [plistening EXCEPT ![c] = TRUE]
    /\ joinPc' = [joinPc EXCEPT ![c] = "awaiting"]
    /\ UNCHANGED <<closeEmits, userId, syncCreated, statsListeners, electErrors,
                   userLeftSent, strayEvents, execListening, recvRegistered>>
    /\ UNCHANGED sessVars
    /\ UNCHANGED <<queueVars, protoVars, cacheVars, sendVars>>

\* The emitter of a completion event is the client's current protocol, or the
\* event is a stray one, counted against MaxStrayEvents.
Stray(c, emitter) ==
    IF protocol[c] = emitter
    THEN UNCHANGED strayEvents
    ELSE /\ strayEvents < MaxStrayEvents
         /\ strayEvents' = strayEvents + 1

\* The handshake protocol emits 'protocol.handshake-complete': the listener
\* registered in Client.join replaces the protocol by a new ClientSync.
HandshakeComplete(c) ==
    /\ joinPc[c] # "none"
    /\ Stray(c, "ClientHandshake")
    /\ \E u \in UserIds :
        userId' = [userId EXCEPT ![c] = IF userId[c] = NoUser THEN u ELSE userId[c]]
    /\ protocol' = [protocol EXCEPT ![c] = "ClientSync"]
    /\ plistening' = [plistening EXCEPT ![c] = TRUE]
    /\ syncCreated' = [syncCreated EXCEPT ![c] = TRUE]
    /\ UNCHANGED <<orderSequence, order, clientSet, csession, connListening,
                   connOpen, closeEmits, joinPc, statsListeners, electErrors,
                   userLeftSent, execListening, recvRegistered>>
    /\ UNCHANGED sessVars
    /\ UNCHANGED <<queueVars, protoVars, cacheVars, sendVars>>

\* Effects on the session of Session.leave(c) run over (cs, sess)
ApplySessionLeave(cs, sess, c) ==
    LET r == SessionLeave(cs, sess, c) IN
    /\ clientSet' = r.clientSet
    /\ userLeftSent' = [userLeftSent EXCEPT ![c] = @ + (IF r.userLeft THEN 1 ELSE 0)]
    /\ appConnOpen' = (appConnOpen /\ ~r.closeApp)
    \* Protocol.sendMessage hands the message to conn.send whatever the conn's state
    /\ appSentClosed' = (appSentClosed \/ (r.userLeft /\ ~appConnOpen))

\* ClientSync drains the client's queue before it completes: "on entry to
\* Execution the queue is drained in insertion order through filterQueuedMessages"
SyncDrained(c) == queue[c] = <<>>

\* A sync protocol emits 'protocol.sync-complete': the listener registered in
\* Client.join installs a ClientExecution and resolves the join promise; the
\* first resolution resumes Session.join after `await client.join(this)`.
SyncComplete(c) ==
    /\ syncCreated[c]
    /\ SyncDrained(c)
    /\ Stray(c, "ClientSync")
    /\ protocol' = [protocol EXCEPT ![c] = "ClientExecution"]
    /\ plistening' = [plistening EXCEPT ![c] = TRUE]
    /\ joinPc' = [joinPc EXCEPT ![c] = "done"]
    \* execution.on('recv', ...) and execution.startListening()
    /\ execListening' = [execListening EXCEPT ![c] = @ + 1]
    \* client.on('recv', ...) once `await client.join(this)` returns
    /\ recvRegistered' = [recvRegistered EXCEPT ![c] = @ \/ joinPc[c] = "awaiting"]
    /\ IF joinPc[c] = "awaiting"
       THEN LET ac == AuthoritativeClientIn(clientSet, csession)
                elect == ~ac.threw /\ ~ac.found
                e == SetAuthoritativeClient(clientSet, c)
            IN /\ electErrors' = electErrors + (IF elect /\ e.logged THEN 1 ELSE 0)
               /\ statsListeners' =
                    [statsListeners EXCEPT ![c] = @ + (IF elect THEN e.installed ELSE 0)]
               /\ IF ac.threw \/ (elect /\ e.threw)
                  THEN ApplySessionLeave(clientSet, csession, c)
                  ELSE UNCHANGED <<clientSet, userLeftSent, appConnOpen,
                                   appSentClosed>>
       ELSE UNCHANGED <<electErrors, statsListeners, clientSet, userLeftSent,
                        appConnOpen, appSentClosed>>
    /\ UNCHANGED <<orderSequence, order, csession, connListening, connOpen,
                   closeEmits, userId, syncCreated>>
    /\ UNCHANGED <<peerAuthoritative, sessProtocol, sessPc, sessFailed,
                   appListening, sessClosed, clientCap>>
    /\ UNCHANGED <<queueVars, protoVars, cacheVars, sendVars>>

\* The client's conn emits 'close' or 'error': Client.leave, whose 'close'
\* event runs the listener of Session.join, Session.leave(client.id).
ClientTransportEvent(c) ==
    /\ connListening[c]
    /\ \E ev \in {"close", "error"} :
        /\ protocol' = [protocol EXCEPT ![c] = "none"]
        /\ plistening' = [plistening EXCEPT ![c] = FALSE]
        /\ connListening' = [connListening EXCEPT ![c] = FALSE]
        /\ connOpen' = [connOpen EXCEPT ![c] = FALSE]
        /\ csession' = [csession EXCEPT ![c] = FALSE]
        /\ closeEmits' = [closeEmits EXCEPT ![c] = @ + 1]
        \* this._protocol.stopListening() stops the current protocol only
        /\ execListening' = [execListening EXCEPT ![c] =
                IF protocol[c] = "ClientExecution" /\ plistening[c] THEN @ - 1 ELSE @]
        \* the 'close' listener calling Session.leave is registered by Session.join
        /\ IF joinPc[c] # "none"
           THEN ApplySessionLeave(clientSet, csession', c)
           ELSE UNCHANGED <<clientSet, userLeftSent, appConnOpen, appSentClosed>>
    /\ UNCHANGED <<orderSequence, order, userId, joinPc, syncCreated,
                   statsListeners, electErrors, strayEvents, recvRegistered>>
    /\ UNCHANGED <<peerAuthoritative, sessProtocol, sessPc, sessFailed,
                   appListening, sessClosed, clientCap>>
    /\ UNCHANGED <<queueVars, protoVars, cacheVars, sendVars>>

\* new Client(conn): the constructor takes the next order and registers
\* leave on the conn's 'close' and 'error'
ConstructClient(c) ==
    /\ orderSequence < clientCap
    /\ c = orderSequence + 1
    /\ order[c] = -1
    /\ order' = [order EXCEPT ![c] = orderSequence]
    /\ orderSequence' = orderSequence + 1
    /\ connListening' = [connListening EXCEPT ![c] = TRUE]
    /\ connOpen' = [connOpen EXCEPT ![c] = TRUE]
    /\ UNCHANGED <<clientSet, protocol, plistening, csession, closeEmits, userId,
                   joinPc, syncCreated, statsListeners, electErrors, userLeftSent,
                   strayEvents, execListening, recvRegistered>>
    /\ UNCHANGED sessVars
    /\ UNCHANGED <<queueVars, protoVars, cacheVars, sendVars>>

\* Session.join(client), for a client constructed earlier, up to
\* `await client.join(this)`
SessionJoin(c) ==
    /\ sessPc = "done"
    /\ order[c] # -1
    /\ joinPc[c] = "none"
    /\ clientSet' = Append(clientSet, c)
    /\ csession' = [csession EXCEPT ![c] = TRUE]
    /\ protocol' = [protocol EXCEPT ![c] = "ClientHandshake"]
    /\ plistening' = [plistening EXCEPT ![c] = TRUE]
    /\ joinPc' = [joinPc EXCEPT ![c] = "awaiting"]
    /\ UNCHANGED <<orderSequence, order, connListening, connOpen, closeEmits, userId,
                   syncCreated, statsListeners, electErrors, userLeftSent,
                   strayEvents, execListening, recvRegistered>>
    /\ UNCHANGED sessVars
    /\ UNCHANGED <<queueVars, protoVars, cacheVars, sendVars>>

\* Clients constructed and joined in separate steps
NextJoin ==
    \/ \E c \in ClientIds : ConstructClient(c)
    \/ \E c \in ClientIds : SessionJoin(c)
    \/ \E c \in ClientIds : HandshakeComplete(c)
    \/ \E c \in ClientIds : SyncComplete(c)
    \/ \E c \in ClientIds : ClientTransportEvent(c)

\* The connected session, followed over two clients
InitJoin ==
    /\ InitCommon
    /\ mergeTarget = NoContent
    /\ mergePatch = NoContent
    /\ arrayMerge = "concat"
    /\ peerAuthoritative = TRUE
    /\ sessProtocol = "SessionExecution"
    /\ sessPc = "done"
    /\ clientCap = 2

\* ---------------------------------------------------------- message queue
\* Client.filterQueuedMessages returning `allow` from the filter callback
FilterQueuedMessagesKeepAllowed(q, sel) ==
    [filtered |-> SelectSeq(q, LAMBDA v : v.type \in sel),
     rest |-> SelectSeq(q, LAMBDA v : v.type \in sel)]

\* Client.filterQueuedMessages(callbackfn) over the queue q, for a callbackfn
\* that allows the payload types of sel: the messages pushed to
\* filteredMessages and the messages Array.filter keeps.
FilterQueuedMessages(q, sel) ==
    [filtered |-> SelectSeq(q, LAMBDA v : v.type \in sel),
     rest |-> SelectSeq(q, LAMBDA v : v.type \notin sel)]

\* The session queues messages for the clients of the session that have not
\* reached Execution.
QueueingFor(c) ==
    /\ c \in Range(clientSet)
    /\ protocol[c] \in {"ClientHandshake", "ClientSync"}

\* Client.queueMessage(message): the type's beforeQueueMessageForClient rule
\* returns the message (keep) or nothing; a kept message is pushed.
QueueMessage(c) ==
    /\ msgSeq < MaxQueued
    /\ QueueingFor(c)
    /\ \E t \in PayloadTypes, keep \in BOOLEAN :
        LET message == [id |-> msgSeq + 1, type |-> t] IN
        /\ msgSeq' = msgSeq + 1
        /\ IF keep
           THEN /\ queue' = [queue EXCEPT ![c] = Append(@, message)]
                /\ accepted' = [accepted EXCEPT ![c] = Append(@, message)]
           ELSE UNCHANGED <<queue, accepted>>
    /\ UNCHANGED sentBatches
    /\ UNCHANGED <<clientVars, sessVars, protoVars, cacheVars, sendVars>>

\* One drain wave of ClientSync: filterQueuedMessages with a predicate on the
\* payload type, each returned message handed to sendMessage in order.
DrainWave(c) ==
    /\ protocol[c] = "ClientSync"
    /\ \E sel \in SUBSET PayloadTypes :
        LET r == FilterQueuedMessages(queue[c], sel) IN
        /\ r.filtered # <<>>
        /\ queue' = [queue EXCEPT ![c] = r.rest]
        /\ sentBatches' = [sentBatches EXCEPT ![c] = Append(@, r.filtered)]
    /\ UNCHANGED <<msgSeq, accepted>>
    /\ UNCHANGED <<clientVars, sessVars, protoVars, cacheVars, sendVars>>

Next ==
    \/ \E c \in ClientIds : NewClient(c)
    \/ \E c \in ClientIds : HandshakeComplete(c)
    \/ \E c \in ClientIds : SyncComplete(c)
    \/ \E c \in ClientIds : ClientTransportEvent(c)

Spec == Init /\ [][Next]_vars

SpecAppAuth == InitAppAuth /\ [][Next]_vars

NextConnect ==
    \/ SessionConnect
    \/ SessionPhaseSettled
    \/ AppTransportEvent
    \/ Next

SpecConnect == InitConnect /\ [][NextConnect]_vars

\* A client's queue is touched by that client's queueMessage and
\* filterQueuedMessages alone: SpecQueue follows a single client.
InitQueue ==
    /\ InitCommon
    /\ mergeTarget = NoContent
    /\ mergePatch = NoContent
    /\ arrayMerge = "concat"
    /\ peerAuthoritative = TRUE
    /\ sessProtocol = "SessionExecution"
    /\ sessPc = "done"
    /\ clientCap = 1

NextQueue ==
    \/ \E c \in ClientIds : QueueMessage(c)
    \/ \E c \in ClientIds : DrainWave(c)
    \/ Next

SpecQueue == InitQueue /\ [][NextQueue]_vars

\* ---------------------------------------------------------------- protocol
\* setReplyTimeout() of Protocol.sendMessage: a timer only if timeoutSeconds > 0
SetReplyTimeout(t) == IF t > 0 THEN "armed" ELSE "none"

\* clearTimeout(queuedPromise.timeout)
ClearTimeout(tm) == IF tm = "armed" THEN "cleared" ELSE tm

\* Protocol.rejectPromiseForMessage(messageId, reason) over the reply map ps:
\* it acts (clears the timer, deletes the entry, rejects the promise) only on
\* an entry whose promise has a reject callback.
RejectPromiseForMessage(ps, m) == ps[m] = "reject"

\* The middleware loop of sendMessage from position i of the chain on:
\* whether the message was dropped, how many beforeSend callbacks have run,
\* and the position of the middleware that dropped it (0 if none did).
RECURSIVE BeforeSendFrom(_, _)
BeforeSendFrom(chain, i) ==
    IF i > Len(chain) THEN [dropped |-> FALSE, ran |-> Len(chain), dropAt |-> 0]
    ELSE IF chain[i] = "drop" THEN [dropped |-> TRUE, ran |-> i, dropAt |-> i]
    ELSE BeforeSendFrom(chain, i + 1)

\* The middleware loop going on to the end of the chain after a drop
BeforeSendRunAll(chain) ==
    [dropped |-> BeforeSendFrom(chain, 1).dropped, ran |-> Len(chain),
     dropAt |-> BeforeSendFrom(chain, 1).dropAt]

\* The middleware loop of sendMessage over a chain of beforeSend outcomes:
\* `return` at the first middleware that yields no message.
BeforeSend(chain) == BeforeSendFrom(chain, 1)

\* Object.keys(this.promises).length taken for 0 whatever the map holds
NoPromisesAlways(ps) == TRUE

\* Object.keys(this.promises).length is 0
NoPromises(ps) == \A m \in MsgIds : ps[m] = "none"

\* Protocol.handleReplyMessage resolving the promise and leaving its entry
HandleReplyMessageKeepEntry(ps, m) == [found |-> ps[m] # "none", promises |-> ps]

\* Protocol.handleReplyMessage(message) over the reply map ps, for a message
\* with replyToId = m: whether an entry was found, and the map afterwards
HandleReplyMessage(ps, m) ==
    [found |-> ps[m] # "none", promises |-> [ps EXCEPT ![m] = "none"]]

\* messages with a replyToId received over the conn so far
RECURSIVE SumUpTo(_, _)
SumUpTo(f, n) == IF n = 0 THEN 0 ELSE f[n] + SumUpTo(f, n - 1)

RepliesReceived == SumUpTo(replies, MaxMsgs)

\* Protocol.sendMessage(message, promise, timeoutSeconds) on the conn's
\* current protocol; chain holds what each beforeSend middleware does.
SendMessage ==
    /\ nextMsg < MaxMsgs
    /\ \E pk \in PromiseKinds, t \in TimeoutSeconds, chain \in Chains :
        LET m == nextMsg + 1
            mw == BeforeSend(chain)
        IN
        /\ nextMsg' = m
        /\ mwRan' = [mwRan EXCEPT ![m] = mw.ran]
        /\ mwDropAt' = [mwDropAt EXCEPT ![m] = mw.dropAt]
        \* promise.reject() of line 84
        /\ settles' = [settles EXCEPT ![m] =
                IF mw.dropped /\ pk = "reject" THEN @ + 1 ELSE @]
        /\ IF mw.dropped
           THEN /\ outcome' = [outcome EXCEPT ![m] =
                        CASE pk = "reject" -> "rejected-dropped"
                          [] pk = "noreject" -> "dropped-no-reject"
                          [] OTHER -> "dropped"]
                /\ UNCHANGED <<promises, timer, connSent, sentBy, timeoutOf>>
           ELSE /\ promises' = [promises EXCEPT ![m] = pk]
                /\ timeoutOf' = [timeoutOf EXCEPT ![m] = t]
                /\ timer' = [timer EXCEPT ![m] =
                        IF pk # "none" THEN SetReplyTimeout(t) ELSE "none"]
                /\ outcome' = [outcome EXCEPT ![m] =
                        IF pk # "none" THEN "pending" ELSE "sent"]
                /\ connSent' = connSent \cup {m}
                /\ sentBy' = [sentBy EXCEPT ![m] = pPhase]
    /\ UNCHANGED <<pConnOpen, pCloseEmitted, pListening, replies, pPhase,
                   resolvedBy, drainPc, unexpected>>
    /\ UNCHANGED <<clientVars, sessVars, queueVars, cacheVars, sendVars>>

\* The reply timer of message m fires: rejectPromiseForMessage, conn.close()
TimerFire(m) ==
    /\ timer[m] = "armed"
    /\ LET rejects == RejectPromiseForMessage(promises, m) IN
        /\ promises' = [promises EXCEPT ![m] = IF rejects THEN "none" ELSE @]
        /\ outcome' = [outcome EXCEPT ![m] = IF rejects THEN "rejected-timeout" ELSE @]
        /\ settles' = [settles EXCEPT ![m] = IF rejects THEN @ + 1 ELSE @]
    /\ timer' = [timer EXCEPT ![m] = "fired"]
    /\ pConnOpen' = FALSE
    /\ UNCHANGED <<pCloseEmitted, pListening, timeoutOf, connSent, replies, nextMsg,
                   pPhase, sentBy, resolvedBy, mwRan, mwDropAt, drainPc, unexpected>>
    /\ UNCHANGED <<clientVars, sessVars, queueVars, cacheVars, sendVars>>

\* The conn emits 'close': Protocol.onClose, if a protocol is listening,
\* calls rejectPromiseForMessage for every key of the map
ProtocolTransportClose ==
    /\ ~pCloseEmitted
    /\ pCloseEmitted' = TRUE
    /\ pConnOpen' = FALSE
    /\ LET hit == {m \in MsgIds : pListening /\ promises[m] # "none"
                                  /\ RejectPromiseForMessage(promises, m)} IN
        /\ promises' = [m \in MsgIds |-> IF m \in hit THEN "none" ELSE promises[m]]
        /\ timer' = [m \in MsgIds |-> IF m \in hit THEN ClearTimeout(timer[m]) ELSE timer[m]]
        /\ outcome' = [m \in MsgIds |-> IF m \in hit THEN "rejected-closed" ELSE outcome[m]]
        /\ settles' = [m \in MsgIds |-> IF m \in hit THEN settles[m] + 1 ELSE settles[m]]
    /\ UNCHANGED <<pListening, timeoutOf, connSent, replies, nextMsg,
                   pPhase, sentBy, resolvedBy, mwRan, mwDropAt, drainPc, unexpected>>
    /\ UNCHANGED <<clientVars, sessVars, queueVars, cacheVars, sendVars>>

\* A message with replyToId = m is received by the listening protocol:
\* Protocol.handleReplyMessage looks it up in conn.promises
RecvReply(m) ==
    /\ pListening
    /\ ~pCloseEmitted
    /\ m \in connSent
    /\ RepliesReceived < MaxReplies
    /\ replies' = [replies EXCEPT ![m] = @ + 1]
    /\ LET h == HandleReplyMessage(promises, m) IN
       IF ~h.found
       THEN \* missingPromiseForReplyMessage
            /\ unexpected' = [unexpected EXCEPT ![m] = @ + 1]
            /\ UNCHANGED <<promises, timer, outcome, resolvedBy, settles>>
       ELSE /\ promises' = h.promises
            /\ timer' = [timer EXCEPT ![m] = ClearTimeout(@)]
            /\ outcome' = [outcome EXCEPT ![m] = "resolved"]
            /\ resolvedBy' = [resolvedBy EXCEPT ![m] = pPhase]
            /\ settles' = [settles EXCEPT ![m] = @ + 1]
            /\ UNCHANGED unexpected
    /\ UNCHANGED <<pConnOpen, pCloseEmitted, pListening, timeoutOf, connSent, nextMsg,
                   pPhase, sentBy, mwRan, mwDropAt, drainPc>>
    /\ UNCHANGED <<clientVars, sessVars, queueVars, cacheVars, sendVars>>

\* Protocol.resolve() of the conn's current protocol: stopListening()
ProtocolResolve ==
    /\ pListening
    /\ pPhase < MaxPhases
    /\ pListening' = FALSE
    /\ UNCHANGED <<pConnOpen, pCloseEmitted, promises, timer, outcome, timeoutOf,
                   connSent, replies, nextMsg, pPhase, sentBy, resolvedBy, mwRan,
                   mwDropAt, drainPc, settles, unexpected>>
    /\ UNCHANGED <<clientVars, sessVars, queueVars, cacheVars, sendVars>>

\* The protocol of the next phase is constructed over the same conn and
\* starts listening; Protocol.promises is the conn's map, not its own.
ProtocolStart ==
    /\ ~pListening
    /\ pPhase < MaxPhases
    /\ pPhase' = pPhase + 1
    /\ pListening' = TRUE
    /\ UNCHANGED <<pConnOpen, pCloseEmitted, promises, timer, outcome, timeoutOf,
                   connSent, replies, nextMsg, sentBy, resolvedBy, mwRan,
                   mwDropAt, drainPc, settles, unexpected>>
    /\ UNCHANGED <<clientVars, sessVars, queueVars, cacheVars, sendVars>>

\* Protocol.drainPromises(): returns at once on an empty map, else a promise
\* that polls the map every 10 ms
DrainPromises ==
    /\ drainPc = "idle"
    /\ drainPc' = IF NoPromises(promises) THEN "returned" ELSE "polling"
    /\ UNCHANGED <<pConnOpen, pCloseEmitted, pListening, promises, timer, outcome,
                   timeoutOf, connSent, replies, nextMsg, pPhase, sentBy,
                   resolvedBy, mwRan, mwDropAt, settles, unexpected>>
    /\ UNCHANGED <<clientVars, sessVars, queueVars, cacheVars, sendVars>>

\* check() of drainPromises finding the map empty: resolve()
DrainCheck ==
    /\ drainPc = "polling"
    /\ NoPromises(promises)
    /\ drainPc' = "resolved"
    /\ UNCHANGED <<pConnOpen, pCloseEmitted, pListening, promises, timer, outcome,
                   timeoutOf, connSent, replies, nextMsg, pPhase, sentBy,
                   resolvedBy, mwRan, mwDropAt, settles, unexpected>>
    /\ UNCHANGED <<clientVars, sessVars, queueVars, cacheVars, sendVars>>

NextProtocol ==
    \/ SendMessage
    \/ \E m \in MsgIds : TimerFire(m)
    \/ ProtocolTransportClose
    \/ \E m \in MsgIds : RecvReply(m)
    \/ ProtocolResolve
    \/ ProtocolStart

SpecProtocol == Init /\ [][NextProtocol]_vars

\* drainPromises() on one protocol of the conn
NextDrain ==
    \/ SendMessage
    \/ \E m \in MsgIds : TimerFire(m)
    \/ ProtocolTransportClose
    \/ \E m \in MsgIds : RecvReply(m)
    \/ DrainPromises
    \/ DrainCheck

\* setTimeout callbacks run: the poll of drainPromises and the reply timers
SpecDrain ==
    /\ Init
    /\ [][NextDrain]_vars
    /\ WF_vars(DrainCheck)
    /\ \A m \in MsgIds : WF_vars(TimerFire(m))

\* ------------------------------------------------------------ asset cache
\* creator messages the app sends: 'create-asset' carries a definition,
\* 'load-assets' does not
CreatorMessages ==
    {[present |-> TRUE, type |-> "create-asset", containerId |-> k, definition |-> d] :
        k \in Containers, d \in Definitions}
    \cup {[present |-> TRUE, type |-> "load-assets", containerId |-> k, definition |-> NoDef] :
        k \in Containers}

\* deepmerge(a, b): the fields of b over those of a
Deepmerge(a, b) ==
    [name |-> IF b.name # 0 THEN b.name ELSE a.name,
     color |-> IF b.color # 0 THEN b.color ELSE a.color]

\* this.assetCreatorSet[id], undefined for an id that is no key
CreatorOf(st, id) == IF id \in CreatorIds THEN st.creators[id] ELSE AbsentCreator

\* Session.cacheAssetCreationRequest(message) with message.id = id
CacheAssetCreationRequest(st, id, message) ==
    [st EXCEPT !.creators[id] = message]

\* Session.cacheAssetCreation(assetId, creatorId): the cache afterwards and
\* whether the call threw. Line 311 stores a new object under assetId, line
\* 313 sets its creatorMessageId, line 318 dereferences the creator.
CacheAssetCreation(st, assetId, creatorId) ==
    LET syncAsset == [present |-> TRUE, creatorMessageId |-> creatorId,
                      hasUpdate |-> FALSE, update |-> NoDef]
        creator == CreatorOf(st, creatorId)
        st1 == [st EXCEPT !.assets[assetId] = syncAsset]
    IN IF ~creator.present
       THEN [st |-> st1, threw |-> TRUE]
       ELSE IF creator.type = "create-asset" /\ syncAsset.hasUpdate
       THEN [st |-> [st1 EXCEPT
                       !.creators[creatorId].definition =
                            Deepmerge(creator.definition, syncAsset.update),
                       !.assets[assetId].hasUpdate = FALSE,
                       !.assets[assetId].update = NoDef],
             threw |-> FALSE]
       ELSE [st |-> st1, threw |-> FALSE]

\* Session.cacheAssetUpdate buffering every update on the asset
CacheAssetUpdateBufferOnly(st, assetId, patch) ==
    LET syncAsset == IF st.assets[assetId].present THEN st.assets[assetId]
                     ELSE [AbsentAsset EXCEPT !.present = TRUE]
    IN [st EXCEPT !.assets[assetId] =
            [syncAsset EXCEPT !.hasUpdate = TRUE,
                              !.update = Deepmerge(syncAsset.update, patch)]]

\* Session.cacheAssetUpdate(update) with update.payload.asset = patch for assetId
CacheAssetUpdate(st, assetId, patch) ==
    LET syncAsset == IF st.assets[assetId].present THEN st.assets[assetId]
                     ELSE [AbsentAsset EXCEPT !.present = TRUE]
        creator == CreatorOf(st, syncAsset.creatorMessageId)
        st1 == [st EXCEPT !.assets[assetId] = syncAsset]
    IN IF creator.present /\ creator.type = "create-asset"
       THEN [st1 EXCEPT !.creators[syncAsset.creatorMessageId].definition =
                            Deepmerge(creator.definition, patch)]
       ELSE IF syncAsset.hasUpdate
       THEN [st1 EXCEPT !.assets[assetId].update = Deepmerge(syncAsset.update, patch)]
       ELSE [st1 EXCEPT !.assets[assetId].hasUpdate = TRUE,
                        !.assets[assetId].update = patch]

\* Session.cacheAssetUnload deleting the creators and leaving their assets
CacheAssetUnloadCreatorsOnly(st, containerId) ==
    [st EXCEPT !.creators =
        [id \in CreatorIds |->
            IF st.creators[id].present /\ st.creators[id].containerId = containerId
            THEN AbsentCreator ELSE st.creators[id]]]

\* Session.cacheAssetUnload(containerId): each creator of the container is
\* deleted, and with it the assets whose creatorMessageId is its id
CacheAssetUnload(st, containerId) ==
    LET creators == {id \in CreatorIds : /\ st.creators[id].present
                                         /\ st.creators[id].containerId = containerId}
    IN [creators |-> [id \in CreatorIds |->
                        IF id \in creators THEN AbsentCreator ELSE st.creators[id]],
        assets |-> [a \in AssetIds |->
                        IF st.assets[a].present /\ st.assets[a].creatorMessageId \in creators
                        THEN AbsentAsset ELSE st.assets[a]]]

\* the session's asset cache
Cache == [assets |-> assetSet, creators |-> assetCreatorSet]

\* the app sends a 'create-asset' or 'load-assets' message
CacheRequest ==
    /\ \E id \in CreatorIds, message \in CreatorMessages :
        LET st == CacheAssetCreationRequest(Cache, id, message) IN
        /\ assetSet' = st.assets
        /\ assetCreatorSet' = st.creators
    /\ cacheOp' = "request"
    /\ UNCHANGED <<actorSet, mergeTarget, mergePatch, mergeLog,
                   arrayMerge>>
    /\ UNCHANGED <<clientVars, sessVars, queueVars, protoVars, sendVars>>

\* a client reports an asset created by a creator message
CacheCreation ==
    /\ \E a \in AssetIds, id \in CreatorIds :
        LET st == CacheAssetCreation(Cache, a, id).st IN
        /\ assetSet' = st.assets
        /\ assetCreatorSet' = st.creators
    /\ cacheOp' = "creation"
    /\ UNCHANGED <<actorSet, mergeTarget, mergePatch, mergeLog,
                   arrayMerge>>
    /\ UNCHANGED <<clientVars, sessVars, queueVars, protoVars, sendVars>>

\* the app sends an asset-update
CacheUpdate ==
    /\ \E a \in AssetIds, patch \in Patches :
        LET st == CacheAssetUpdate(Cache, a, patch) IN
        /\ assetSet' = st.assets
        /\ assetCreatorSet' = st.creators
    /\ cacheOp' = "update"
    /\ UNCHANGED <<actorSet, mergeTarget, mergePatch, mergeLog,
                   arrayMerge>>
    /\ UNCHANGED <<clientVars, sessVars, queueVars, protoVars, sendVars>>

\* the app unloads a container
CacheUnload ==
    /\ \E k \in Containers :
        LET st == CacheAssetUnload(Cache, k) IN
        /\ assetSet' = st.assets
        /\ assetCreatorSet' = st.creators
    /\ cacheOp' = "unload"
    /\ UNCHANGED <<actorSet, mergeTarget, mergePatch, mergeLog,
                   arrayMerge>>
    /\ UNCHANGED <<clientVars, sessVars, queueVars, protoVars, sendVars>>

NextAssets ==
    \/ CacheRequest
    \/ CacheCreation
    \/ CacheUpdate
    \/ CacheUnload

SpecAssets == Init /\ [][NextAssets]_vars

\* ------------------------------------------------------------ actor cache
\* transforms an actor payload can carry: app space, local space with any
\* of position, rotation and scale; all FALSE is a payload without transform
Transforms ==
    {t \in [app : BOOLEAN, local : BOOLEAN, position : BOOLEAN,
            rotation : BOOLEAN, scale : BOOLEAN] :
        ~t.local => (~t.position /\ ~t.rotation /\ ~t.scale)}

\* transforms without a local part
AppTransforms == {t \in Transforms : ~t.local}

\* actor messages: payload type, and in payload.actor the parentId, the
\* exclusiveToUser and the transform
ActorMessages(types, parents, users, transforms) ==
    [type : types, parentId : parents, exclusiveToUser : users, transform : transforms]

\* the SyncActor cached for a message: payload.actor is taken from `actor`
SyncActorOf(type, actor, exclusive, replaced) ==
    [present |-> TRUE, updated |-> FALSE, type |-> type,
     exclusiveToUser |-> exclusive, replaced |-> replaced,
     parentId |-> actor.parentId, actorExclusive |-> actor.exclusiveToUser,
     app |-> actor.transform.app, local |-> actor.transform.local,
     position |-> actor.transform.position, rotation |-> actor.transform.rotation,
     scale |-> actor.transform.scale]

\* payload.actor of a cached initialization message
ActorOf(syncActor) ==
    [parentId |-> syncActor.parentId, exclusiveToUser |-> syncActor.actorExclusive,
     transform |-> [app |-> syncActor.app, local |-> syncActor.local,
                    position |-> syncActor.position, rotation |-> syncActor.rotation,
                    scale |-> syncActor.scale]]

\* Session.cacheInitializeActorMessage writing the new message back as it came
CacheInitializeActorMessageKeepNew(as, a, message) ==
    IF ~as[a].present \/ as[a].type = "x-reserve-actor"
    THEN [as EXCEPT ![a] = SyncActorOf(message.type, message,
                                       message.exclusiveToUser, as[a].present)]
    ELSE as

\* Session.cacheInitializeActorMessage(message) with message.payload.actor.id = a,
\* over the actor set as
CacheInitializeActorMessage(as, a, message) ==
    IF ~as[a].present
    THEN LET parent == IF message.parentId \in ActorIds THEN as[message.parentId]
                       ELSE AbsentActor
             exclusive == IF parent.present /\ parent.exclusiveToUser # NoUser
                          THEN parent.exclusiveToUser
                          ELSE message.exclusiveToUser
         IN [as EXCEPT ![a] = SyncActorOf(message.type, message, exclusive, FALSE)]
    ELSE IF as[a].type = "x-reserve-actor"
    THEN [as EXCEPT ![a] =
            [SyncActorOf(message.type, ActorOf(as[a]), as[a].exclusiveToUser, TRUE)
                EXCEPT !.updated = as[a].updated]]
    ELSE as

\* Session.cacheActorUpdateMessage taking the SyncActor's exclusiveToUser
\* from the patch as well
CacheActorUpdateMessageExclusive(actor, patch) ==
    [actor EXCEPT !.updated = TRUE,
                  !.exclusiveToUser = patch.exclusiveToUser,
                  !.actorExclusive = patch.exclusiveToUser]

\* Session.cacheActorUpdateMessage(message) on the cached actor: deepmerge of
\* the patch into the cached actor, then the stripping of lines 295-302
CacheActorUpdateMessage(actor, patch) ==
    LET pt == patch.transform
        merged == [actor EXCEPT !.updated = TRUE,
                                !.actorExclusive =
                                    IF patch.exclusiveToUser # NoUser
                                    THEN patch.exclusiveToUser ELSE @,
                                !.app = actor.app \/ pt.app,
                                !.local = actor.local \/ pt.local,
                                !.position = actor.position \/ pt.position,
                                !.rotation = actor.rotation \/ pt.rotation,
                                !.scale = actor.scale \/ pt.scale]
    IN IF pt.app /\ merged.local
       THEN [merged EXCEPT !.position = FALSE, !.rotation = FALSE]
       ELSE IF pt.local
       THEN [merged EXCEPT !.app = FALSE]
       ELSE merged

\* the app creates an actor
ActorInitialize ==
    /\ \E a \in ActorIds,
          message \in ActorMessages({"create-actor"}, {"none"}, {NoUser}, Transforms) :
        actorSet' = CacheInitializeActorMessage(actorSet, a, message)
    /\ UNCHANGED <<assetSet, assetCreatorSet, cacheOp, mergeTarget, mergePatch, mergeLog,
                   arrayMerge>>
    /\ UNCHANGED <<clientVars, sessVars, queueVars, protoVars, sendVars>>

\* an actor-update passes through the session
ActorUpdate ==
    /\ \E a \in ActorIds,
          patch \in ActorMessages({"actor-update"}, {"none"}, {NoUser}, Transforms) :
        /\ actorSet[a].present
        /\ actorSet' = [actorSet EXCEPT ![a] = CacheActorUpdateMessage(actorSet[a], patch)]
    /\ UNCHANGED <<assetSet, assetCreatorSet, cacheOp, mergeTarget, mergePatch, mergeLog,
                   arrayMerge>>
    /\ UNCHANGED <<clientVars, sessVars, queueVars, protoVars, sendVars>>

NextActors ==
    \/ ActorInitialize
    \/ ActorUpdate

SpecActors == Init /\ [][NextActors]_vars

\* an actor is reserved or created, with or without a parent and an
\* exclusive user
ReserveInitialize ==
    /\ \E a \in ActorIds,
          message \in ActorMessages({"x-reserve-actor", "create-actor"},
                                    {"none"} \cup ActorIds, ActorUsers, AppTransforms) :
        /\ message.parentId # a
        /\ actorSet' = CacheInitializeActorMessage(actorSet, a, message)
    /\ UNCHANGED <<assetSet, assetCreatorSet, cacheOp, mergeTarget, mergePatch, mergeLog,
                   arrayMerge>>
    /\ UNCHANGED <<clientVars, sessVars, queueVars, protoVars, sendVars>>

\* an actor-update that may carry an exclusiveToUser
ReserveUpdate ==
    /\ \E a \in ActorIds,
          patch \in ActorMessages({"actor-update"}, {"none"}, ActorUsers, AppTransforms) :
        /\ actorSet[a].present
        /\ actorSet' = [actorSet EXCEPT ![a] = CacheActorUpdateMessage(actorSet[a], patch)]
    /\ UNCHANGED <<assetSet, assetCreatorSet, cacheOp, mergeTarget, mergePatch, mergeLog,
                   arrayMerge>>
    /\ UNCHANGED <<clientVars, sessVars, queueVars, protoVars, sendVars>>

NextReserve ==
    \/ ReserveInitialize
    \/ ReserveUpdate

SpecReserve == Init /\ [][NextReserve]_vars

\* ------------------------------------------------------------- deepmerge
\* deepmerge(target, source) with the library's default options: a field of
\* source overrides the field of target, objects are merged recursively,
\* arrays are concatenated
RECURSIVE ArrayMergeFrom(_, _, _, _)
ArrayMergeFrom(destination, target, source, i) ==
    IF i > Len(source) THEN destination
    ELSE ArrayMergeFrom(IF i > Len(destination) THEN Append(destination, source[i])
                        ELSE IF source[i] \notin Range(target)
                             THEN Append(destination, source[i])
                        ELSE destination,
                        target, source, i + 1)

ArrayMerge(mode, target, source) ==
    IF mode = "concat" THEN target \o source
    ELSE ArrayMergeFrom(target, target, source, 1)

DeepmergeContent(mode, target, source) ==
    [prim |-> IF source.prim # 0 THEN source.prim ELSE target.prim,
     nested |-> [prim |-> IF source.nested.prim # 0 THEN source.nested.prim
                          ELSE target.nested.prim],
     arr |-> ArrayMerge(mode, target.arr, source.arr)]

\* cached content and an update to apply to it
InitMerge ==
    /\ InitCommon
    /\ peerAuthoritative = TRUE
    /\ sessProtocol = "SessionExecution"
    /\ sessPc = "done"
    /\ clientCap = 0
    /\ mergeTarget \in Contents
    /\ mergePatch \in Contents
    /\ arrayMerge \in ArrayMerges

\* cacheActorUpdateMessage / cacheAssetUpdate applying the update: the cached
\* content becomes deepmerge(cached, update); at most twice in a row
ApplyUpdate ==
    /\ Len(mergeLog) < 2
    /\ mergeTarget' = DeepmergeContent(arrayMerge, mergeTarget, mergePatch)
    /\ mergeLog' = Append(mergeLog, mergeTarget')
    /\ UNCHANGED <<mergePatch, arrayMerge, assetSet, assetCreatorSet, cacheOp, actorSet>>
    /\ UNCHANGED <<clientVars, sessVars, queueVars, protoVars, sendVars>>

SpecMerge == InitMerge /\ [][ApplyUpdate]_vars

\* ------------------------------------------------------------ fan-out
\* uuid/v4 for the envelope sent to client c: unlike any id of the caller's
FreshId(c) == 1 + c

\* the caller's message object is at reference 0 of the heap; reference c
\* is for an object allocated while sending to client c
HeapOf(message) == [r \in 0..MaxClients |-> IF r = 0 THEN message ELSE NoEnvelope]

\* client.send(message): the caller's object itself is handed on
SpreadMessageAlias(heap, c) == [heap |-> heap, ref |-> 0]

\* `{ ...message }`: a new object holding the fields of the caller's message
SpreadMessage(heap, c) == [heap |-> [heap EXCEPT ![c] = heap[0]], ref |-> c]

\* Protocol.sendMessage on the object at ref: line 75 assigns an id to a
\* message that has none; a beforeSend middleware may replace a field (rw)
EnvelopeSendMessage(heap, ref, c, rw) ==
    LET e1 == [heap[ref] EXCEPT !.id = IF @ # 0 THEN @ ELSE FreshId(c)]
        e2 == IF rw THEN [e1 EXCEPT !.tag = c] ELSE e1
    IN [heap EXCEPT ![ref] = e2]

\* Client.send(message): protocol.sendMessage if there is a protocol
ClientSend(heap, ref, c, rw) ==
    IF protocol[c] # "none"
    THEN [heap |-> EnvelopeSendMessage(heap, ref, c, rw), sent |-> TRUE]
    ELSE [heap |-> heap, sent |-> FALSE]

\* the loop of sendToClients over the filtered clients cl, from position i
RECURSIVE SendToEach(_, _, _, _, _)
SendToEach(heap, cl, i, rewrite, sent) ==
    IF i > Len(cl) THEN [heap |-> heap, sent |-> sent]
    ELSE LET c == cl[i]
             sp == SpreadMessage(heap, c)
             r == ClientSend(sp.heap, sp.ref, c, c \in rewrite)
         IN SendToEach(r.heap, cl, i + 1, rewrite,
                       Append(sent, [client |-> c, sent |-> r.sent,
                                     envelope |-> r.heap[sp.ref]]))

\* Session.sendToClients(message, filterFn): filter passes the clients of
\* `filter`; rewrite holds the clients whose middleware replaces a field.
\* One call is followed.
SendToClients ==
    /\ ~fan.called
    /\ \E id \in {0, 1}, filter \in SUBSET {c \in ClientIds : order[c] # -1} :
        \E rewrite \in SUBSET filter :
            LET message == [id |-> id, tag |-> 0]
                cl == SelectSeq(Clients, LAMBDA c : c \in filter)
                r == SendToEach(HeapOf(message), cl, 1, rewrite, <<>>)
            IN fan' = [called |-> TRUE, set |-> clientSet, filter |-> filter,
                       rewrite |-> rewrite, before |-> message,
                       after |-> r.heap[0], sent |-> r.sent]
    /\ UNCHANGED <<jol, forwarded>>
    /\ UNCHANGED <<clientVars, sessVars, queueVars, protoVars, cacheVars>>

NextFanout ==
    \/ NextJoin
    \/ SendToClients

SpecFanout == InitJoin /\ [][NextFanout]_vars

\* -------------------------------------------------------- joinedOrLeft
\* the condition of joinedOrLeft's test(): no protocol, or a ClientExecution
JoinedOrLeftDone(p) == p = "none" \/ p = "ClientExecution"

\* what the client was when the promise of joinedOrLeft resolved
Resolved(c) ==
    [pc |-> "resolved", protocol |-> protocol[c], left |-> closeEmits[c] > 0,
     joined |-> joinPc[c] # "none"]

\* Client.joinedOrLeft(): resolved at once for a client in Execution, else
\* a promise whose test() runs after 25 ms
JoinedOrLeft(c) ==
    /\ order[c] # -1
    /\ jol[c].pc = "idle"
    /\ jol' = [jol EXCEPT ![c] = IF protocol[c] = "ClientExecution" THEN Resolved(c)
                                  ELSE [@ EXCEPT !.pc = "polling"]]
    /\ UNCHANGED <<fan, forwarded>>
    /\ UNCHANGED <<clientVars, sessVars, queueVars, protoVars, cacheVars>>

\* the timer runs test(): resolve(), or set() for another 25 ms
JoinedOrLeftTest(c) ==
    /\ jol[c].pc = "polling"
    /\ JoinedOrLeftDone(protocol[c])
    /\ jol' = [jol EXCEPT ![c] = Resolved(c)]
    /\ UNCHANGED <<fan, forwarded>>
    /\ UNCHANGED <<clientVars, sessVars, queueVars, protoVars, cacheVars>>

NextJoined ==
    \/ NextJoin
    \/ \E c \in ClientIds : JoinedOrLeft(c)
    \/ \E c \in ClientIds : JoinedOrLeftTest(c)

SpecJoined == InitJoin /\ [][NextJoined]_vars

\* ------------------------------------------------- messages from clients
\* Session.preprocessFromClient dropping the message of a client that is
\* not in the client set (the rules of the payload type left aside)
PreprocessFromClient(cs, c) == c \in Range(cs)

\* A message that is not a reply arrives on the conn of client c while a
\* ClientExecution of its is listening: the execution emits 'recv', the
\* client emits it again, and the listener of Session.join, if registered,
\* runs recvFromClient: sendToApp for what preprocessFromClient lets through.
ClientRecv(c) ==
    /\ connOpen[c]
    /\ execListening[c] > 0
    /\ forwarded' = IF recvRegistered[c] /\ PreprocessFromClient(clientSet, c)
                    THEN forwarded \cup {[client |-> c, protocol |-> protocol[c]]}
                    ELSE forwarded
    /\ UNCHANGED <<fan, jol>>
    /\ UNCHANGED <<clientVars, sessVars, queueVars, protoVars, cacheVars>>

NextRecv ==
    \/ Next
    \/ \E c \in ClientIds : ClientRecv(c)

SpecRecv == InitJoin /\ [][NextRecv]_vars

\* ------------------------------------------------------------- phases
\* Client.currentPhase: 0 not joined, 1 Handshake, 2 Sync, 3 Execution,
\* 4 Closed (join has run and the client has no protocol)
PhaseOf(p, j) ==
    CASE p = "ClientHandshake" -> 1
      [] p = "ClientSync" -> 2
      [] p = "ClientExecution" -> 3
      [] OTHER -> IF j = "none" THEN 0 ELSE 4

Phase(c) == PhaseOf(protocol[c], joinPc[c])

InSession(c) == c \in Range(clientSet)

HasLeft(c) == closeEmits[c] > 0

\* ------------------------------------------------------------- claims

\* C1: in a peer-authoritative session at most one client of the client set
\* has authoritative = true (and the getter is defined for each of them),
\* in every state reached by joins, completions, leaves and transport events.
C1_AtMostOneAuthoritative ==
    peerAuthoritative =>
        /\ \A c \in Range(clientSet) : csession[c]
        /\ Cardinality({c \in Range(clientSet) : Authoritative(c)}) <= 1

\* C1 witness: two clients remain after another one has left, one is authoritative
C1_Witness ==
    /\ peerAuthoritative
    /\ Len(clientSet) >= 2
    /\ \E c \in ClientIds : HasLeft(c)
    /\ \E c \in Range(clientSet) : Authoritative(c)

\* C2: when the authoritative client (in Execution) leaves, the client that is authoritative
\* afterwards is the remaining client of lowest order among those in
\* Execution; none in Handshake or Sync while a client in Execution exists.
C2_ElectsLowestJoined ==
    [][\A c \in ClientIds :
         (/\ InSession(c) /\ Authoritative(c) /\ protocol[c] = "ClientExecution"
          /\ c \notin Range(clientSet')) =>
            LET joined == {e \in Range(clientSet') : protocol'[e] = "ClientExecution"}
            IN joined # {} =>
                 \A d \in Range(clientSet') :
                    AuthoritativeIn(clientSet', d) =>
                        /\ d \in joined
                        /\ \A e \in joined : order[d] <= order[e]]_vars

\* C3: the stats forwarding listener pair is installed on exactly the
\* current authoritative client: one pair on the authority once its join has
\* completed, none on any other client.
C3_ListenersOnAuthority ==
    \A c \in ClientIds :
        /\ (InSession(c) /\ Authoritative(c) /\ joinPc[c] = "done")
                => statsListeners[c] = 1
        /\ ~(InSession(c) /\ Authoritative(c)) => statsListeners[c] = 0

\* C4: with peerAuthoritative = false no client is elected: setAuthoritativeClient
\* is never called and no client of the session has authoritative = true.
C4_NoElectionWhenAppAuthoritative ==
    ~peerAuthoritative =>
        /\ electErrors = 0
        /\ \A c \in Range(clientSet) : ~Authoritative(c)

\* C5: a client's phase only moves forward along
\* Handshake -> Sync -> Execution -> Closed.
C5_PhaseMonotonic ==
    [][\A c \in ClientIds :
         PhaseOf(protocol'[c], joinPc'[c]) >= Phase(c)]_vars

\* C6: when a client's transport emits close or error (Client.leave runs and
\* unregisters itself), the client is Closed afterwards: no protocol, not
\* listening, one 'close' emitted, and it is no longer in the client set.
C6_CloseRemovesClient ==
    [][\A c \in ClientIds :
         (connListening[c] /\ ~connListening'[c]) =>
            /\ protocol'[c] = "none"
            /\ ~plistening'[c]
            /\ closeEmits'[c] = closeEmits[c] + 1
            /\ c \notin Range(clientSet')]_vars

\* C6 witness: a client that had a userId (it got past the handshake) has
\* been closed and removed while another client is still in the session
C6_Witness ==
    \E c \in ClientIds :
        /\ HasLeft(c) /\ Phase(c) = 4 /\ userId[c] # NoUser
        /\ ~InSession(c)
        /\ clientSet # <<>>

\* C7: whenever the last client has been removed from the session, the app
\* transport has been closed.
C7_LastLeaveClosesApp ==
    (clientSet = <<>> /\ \E c \in ClientIds : HasLeft(c)) => ~appConnOpen

\* the batches of a client's waves, concatenated
RECURSIVE Flatten(_)
Flatten(batches) ==
    IF batches = <<>> THEN <<>> ELSE Head(batches) \o Flatten(Tail(batches))

MessageIds(q) == {q[i].id : i \in 1..Len(q)}

\* q keeps the order in which queueMessage pushed its messages
InEnqueueOrder(q) == \A i, j \in 1..Len(q) : i < j => q[i].id < q[j].id

C10_TimeoutRejectsAndCloses ==
    \A m \in MsgIds :
        /\ (/\ m \in connSent /\ timeoutOf[m] > 0 /\ replies[m] = 0
            /\ pConnOpen /\ ~pCloseEmitted) => timer[m] = "armed"
        /\ timer[m] = "fired" =>
            /\ outcome[m] = "rejected-timeout"
            /\ promises[m] = "none"
            /\ ~pConnOpen

\* C12: no message is handed to the app transport after the session has
\* closed it, the 'user-left' notification of a client that leaves after the
\* disconnect included; a client that has closed has no protocol to send with
\* and is not in the client set sendToClients fans out to.
C12_NoSendAfterClose ==
    /\ ~appSentClosed
    /\ \A c \in ClientIds : HasLeft(c) => (protocol[c] = "none" /\ ~InSession(c))

\* C11: once the conn has emitted 'close' the outstanding-reply map is empty:
\* every entry was rejected with "Connection closed." and removed, entries
\* whose promise has no reject callback and entries recorded by later
\* sendMessage calls included.
C11_MapEmptyAfterClose ==
    pCloseEmitted =>
        \A m \in MsgIds :
            /\ promises[m] = "none"
            /\ outcome[m] \notin {"pending"}

\* C13: an entry of the reply map exists exactly while the reply is pending
\* (created by sendMessage with a promise, gone once the reply has arrived,
\* the promise was rejected or the timeout fired), and the promise is
\* resolved by the protocol that sent the request, not by the protocol of a
\* later phase of the same connection.
C13_EntryOwnedByOneProtocol ==
    \A m \in MsgIds :
        /\ promises[m] # "none" <=> (outcome[m] = "pending" /\ timer[m] # "fired")
        /\ outcome[m] = "resolved" => resolvedBy[m] = sentBy[m]

\* C14: a message dropped by a beforeSend middleware is not sent, has no
\* entry in the reply map and no timer, its promise was rejected if it has
\* a reject callback, and no middleware after the dropping one has run.
C14_DroppedMessageNotSent ==
    \A m \in MsgIds :
        mwDropAt[m] > 0 =>
            /\ m \notin connSent
            /\ promises[m] = "none"
            /\ timer[m] = "none"
            /\ sentBy[m] = 0
            /\ outcome[m] \in {"rejected-dropped", "dropped-no-reject", "dropped"}
            /\ mwRan[m] = mwDropAt[m]

\* C14 witness: the first middleware dropped a message that came with a
\* rejectable promise, after another message had passed the whole chain
C14_Witness ==
    \E m, n \in MsgIds :
        /\ mwDropAt[m] = 1 /\ outcome[m] = "rejected-dropped"
        /\ n < m /\ n \in connSent /\ mwRan[n] = NumMiddlewares

\* the outstanding-reply map of the conn has no entry
MapEmpty == \A m \in MsgIds : promises[m] = "none"

\* C15: drainPromises() returns at once exactly when the map is empty at the
\* call, completes only in a state where the map is empty, and a poll that
\* finds the map empty completes unless a new entry is recorded first.
C15_DrainCompletesWhenEmpty ==
    /\ [][(drainPc = "idle" /\ drainPc' # "idle") =>
            (drainPc' = "returned" <=> MapEmpty)]_vars
    /\ [][(drainPc' # drainPc /\ drainPc' \in {"returned", "resolved"}) =>
            MapEmpty]_vars
    /\ (drainPc = "polling" /\ MapEmpty) ~> (drainPc = "resolved" \/ ~MapEmpty)

\* C15 witness: drainPromises() found an entry, polled, and completed after
\* the reply had resolved it
C15_Witness ==
    /\ drainPc = "resolved"
    /\ \E m \in MsgIds : outcome[m] = "resolved"

\* C16: every cached asset that has a creatorMessageId has that id as a key
\* of the asset-creator set.
C16_CreatorOfEveryAssetCached ==
    \A a \in AssetIds :
        (assetSet[a].present /\ assetSet[a].creatorMessageId # "none") =>
            CreatorOf(Cache, assetSet[a].creatorMessageId).present

\* C17: with an update buffered on asset X and the 'create-asset' creator M1
\* recorded, cacheAssetCreation(X, M1) leaves X without a buffered update and
\* M1's definition equal to the deep-merge of its definition with the
\* buffered update's asset.
C17_BufferedUpdateMergedOnCreation ==
    \A x \in AssetIds, m1 \in CreatorIds :
        (/\ assetSet[x].present /\ assetSet[x].hasUpdate
         /\ assetSet[x].creatorMessageId = "none"
         /\ assetCreatorSet[m1].present /\ assetCreatorSet[m1].type = "create-asset") =>
            LET r == CacheAssetCreation(Cache, x, m1).st IN
            /\ ~r.assets[x].hasUpdate
            /\ r.creators[m1].definition =
                    [name |-> IF assetSet[x].update.name # 0 THEN assetSet[x].update.name
                              ELSE assetCreatorSet[m1].definition.name,
                     color |-> IF assetSet[x].update.color # 0 THEN assetSet[x].update.color
                               ELSE assetCreatorSet[m1].definition.color]

\* C18: for a 'create-asset' creator, caching the creation and then an
\* update gives the cache that caching a creation with the merged definition
\* gives, with no update buffered; for a 'load-assets' creator the update is
\* buffered on the asset, a second one merged into it, and the creator
\* message is unchanged.
C18_UpdateAfterCreation ==
    \A x \in AssetIds, m \in CreatorIds, k \in Containers,
       d \in Definitions, u \in Patches, u2 \in Patches :
        LET created(def) ==
                CacheAssetCreation(
                    CacheAssetCreationRequest(Cache, m,
                        [present |-> TRUE, type |-> "create-asset",
                         containerId |-> k, definition |-> def]), x, m).st
            loaded ==
                CacheAssetCreation(
                    CacheAssetCreationRequest(Cache, m,
                        [present |-> TRUE, type |-> "load-assets",
                         containerId |-> k, definition |-> NoDef]), x, m).st
            rolled == CacheAssetUpdate(created(d), x, u)
            once == CacheAssetUpdate(loaded, x, u)
            twice == CacheAssetUpdate(once, x, u2)
        IN /\ rolled = created(Deepmerge(d, u))
           /\ ~rolled.assets[x].hasUpdate
           /\ once.creators = loaded.creators
           /\ once.assets = [loaded.assets EXCEPT ![x].hasUpdate = TRUE, ![x].update = u]
           /\ twice.creators = loaded.creators
           /\ twice.assets = [loaded.assets EXCEPT ![x].hasUpdate = TRUE,
                                                   ![x].update = Deepmerge(u, u2)]

\* C18 witness: an update has just been rolled into the definition of the
\* 'create-asset' message that created the asset
C18_Witness ==
    /\ cacheOp = "update"
    /\ \E x \in AssetIds, m \in CreatorIds :
        /\ assetSet[x].present /\ assetSet[x].creatorMessageId = m
        /\ ~assetSet[x].hasUpdate
        /\ assetCreatorSet[m].type = "create-asset"
        /\ assetCreatorSet[m].definition.name = 2

\* C19: cacheAssetUnload(containerId) removes exactly the creators of that
\* container and exactly the assets created by them; every other creator and
\* asset is as before.
C19_UnloadRemovesContainerOnly ==
    \A k \in Containers :
        LET r == CacheAssetUnload(Cache, k)
            gone == {id \in CreatorIds : /\ assetCreatorSet[id].present
                                         /\ assetCreatorSet[id].containerId = k}
        IN /\ \A id \in CreatorIds :
                r.creators[id] = IF id \in gone THEN AbsentCreator ELSE assetCreatorSet[id]
           /\ \A a \in AssetIds :
                r.assets[a] = IF assetSet[a].present /\ assetSet[a].creatorMessageId \in gone
                              THEN AbsentAsset ELSE assetSet[a]

\* C19 witness: an unload has removed one container's creator and asset and
\* left the creator of the other container with the asset it created
C19_Witness ==
    /\ cacheOp = "unload"
    /\ \E m, n \in CreatorIds, x, y \in AssetIds :
        /\ ~assetCreatorSet[m].present /\ ~assetSet[x].present
        /\ assetCreatorSet[n].present
        /\ assetSet[y].present /\ assetSet[y].creatorMessageId = n

\* C20: after an update the cached actor holds exactly one transform space:
\* transform.app, or transform.local position/rotation, not both, not neither.
C20_OneTransformSpace ==
    \A a \in ActorIds :
        (actorSet[a].present /\ actorSet[a].updated) =>
            (actorSet[a].app <=> ~(actorSet[a].position \/ actorSet[a].rotation))

\* C21: when a real init message arrives for an actor cached as reserved,
\* the cached message takes the new message's type with the reserved actor
\* state as its payload's actor (parent, exclusiveToUser, transform), the
\* SyncActor keeps its exclusiveToUser, and the actor is no longer reserved.
C21_ReservedActorStateKept ==
    [][\A a \in ActorIds :
         (/\ actorSet[a].present /\ actorSet[a].type = "x-reserve-actor"
          /\ \/ actorSet'[a].type # actorSet[a].type
             \/ actorSet'[a].replaced # actorSet[a].replaced) =>
            /\ actorSet'[a].type \in {"create-actor", "x-reserve-actor"}
            /\ actorSet'[a] = [actorSet[a] EXCEPT !.type = actorSet'[a].type,
                                                  !.replaced = TRUE]]_vars

\* C21 witness: a reserved actor exclusive to user 1 has been given its
\* create-actor message
C21_Witness ==
    \E a \in ActorIds :
        /\ actorSet[a].replaced /\ actorSet[a].type = "create-actor"
        /\ actorSet[a].exclusiveToUser = 1 /\ actorSet[a].actorExclusive = 1

\* C22: a SyncActor's exclusiveToUser is set when the actor is inserted (the
\* cached parent's if it has one, else the message's) and never changes.
C22_ExclusiveToUserFixed ==
    [][\A a \in ActorIds :
         /\ actorSet[a].present =>
                actorSet'[a].exclusiveToUser = actorSet[a].exclusiveToUser
         /\ (~actorSet[a].present /\ actorSet'[a].present) =>
                LET p == actorSet'[a].parentId
                    inherits == /\ p \in ActorIds /\ actorSet[p].present
                                /\ actorSet[p].exclusiveToUser # NoUser
                IN actorSet'[a].exclusiveToUser =
                        IF inherits THEN actorSet[p].exclusiveToUser
                        ELSE actorSet'[a].actorExclusive]_vars

\* C22 witness: an actor that inherited user 1 from its parent has been
\* updated with a payload naming user 2
C22_Witness ==
    \E a \in ActorIds :
        /\ actorSet[a].present /\ actorSet[a].updated
        /\ actorSet[a].parentId \in ActorIds
        /\ actorSet[a].exclusiveToUser = 1 /\ actorSet[a].actorExclusive = 2

\* C23: applying the same update twice in a row leaves the cached content as
\* applying it once did, for primitive, nested-object and array fields; an
\* array in the update replaces the array in the cache.
C23_UpdateIdempotent ==
    /\ Len(mergeLog) = 2 => mergeLog[2] = mergeLog[1]
    /\ (Len(mergeLog) >= 1 /\ mergePatch.arr # <<>>) => mergeLog[1].arr = mergePatch.arr

\* C24: sendToClients sends to every client of the client set that passes
\* the filter, exactly once each, in ascending Client.order, whatever the
\* order in which the clients joined.
C24_FanoutInOrder ==
    fan.called =>
        /\ \A i \in 1..Len(fan.sent) : fan.sent[i].sent
        /\ {fan.sent[i].client : i \in 1..Len(fan.sent)} = Range(fan.set) \cap fan.filter
        /\ \A i, j \in 1..Len(fan.sent) :
              i < j => order[fan.sent[i].client] < order[fan.sent[j].client]

\* two clients that joined in the reverse of their order were both sent to
C24_Witness ==
    /\ fan.called
    /\ Len(fan.sent) = 2
    /\ Len(fan.set) = 2
    /\ order[fan.set[1]] > order[fan.set[2]]

\* C25: each client is sent its own copy of the envelope: the id assigned
\* by sendMessage and a field replaced by a client's middleware change
\* neither the caller's message nor the envelope of another client.
C25_EnvelopePerClient ==
    fan.called =>
        /\ fan.after = fan.before
        /\ \A i \in 1..Len(fan.sent) :
              LET c == fan.sent[i].client IN
              /\ fan.sent[i].envelope.id =
                    (IF fan.before.id # 0 THEN fan.before.id ELSE FreshId(c))
              /\ fan.sent[i].envelope.tag =
                    (IF c \in fan.rewrite THEN c ELSE fan.before.tag)

\* a message without id sent to two clients, the first of which rewrote it
C25_Witness ==
    /\ fan.called
    /\ Len(fan.sent) = 2
    /\ fan.before.id = 0
    /\ fan.rewrite = {fan.sent[1].client}

\* C26: a client that leaves the session with a known userId has exactly one
\* 'user-left' sent to the app for it, however often leave is triggered for
\* it; a client without userId has none.
C26_OneUserLeft ==
    /\ [](\A c \in ClientIds : userLeftSent[c] <= 1)
    /\ [][\A c \in ClientIds :
            userLeftSent'[c] = userLeftSent[c] +
                (IF /\ c \in Range(clientSet)
                    /\ c \notin Range(clientSet')
                    /\ userId[c] # NoUser
                 THEN 1 ELSE 0)]_vars

\* the only client left on a transport close with its userId known, and the
\* error path of Session.join then called leave for it once more
C26_Witness ==
    /\ orderSequence = 1
    /\ closeEmits[1] = 1
    /\ userId[1] # NoUser
    /\ electErrors = 1
    /\ userLeftSent[1] = 1

\* C27: electing a client id that is not in the client set logs an error
\* and changes no state: no exception escapes setAuthoritativeClient, the
\* client set, the stats listeners and the app conn stay as they were.
C27_ElectUnknownChangesNothing ==
    [][electErrors' # electErrors =>
          /\ \A c \in ClientIds :
                (joinPc[c] = "awaiting" /\ joinPc'[c] = "done") =>
                    ~SetAuthoritativeClient(clientSet, c).threw
          /\ UNCHANGED <<clientSet, statsListeners, appConnOpen>>]_vars

\* C28: the promise of joinedOrLeft resolves only for a client that has
\* reached Execution or has been closed: not in Handshake or Sync, and not
\* for a client constructed but not yet joined.
C28_ResolvesJoinedOrLeft ==
    \A c \in ClientIds :
        jol[c].pc = "resolved" => jol[c].protocol = "ClientExecution" \/ jol[c].left

C8_FailedPhaseDisconnects ==
    \A ph \in sessFailed :
        /\ ~appConnOpen
        /\ sessClosed
        /\ ph = "handshake" => sessProtocol = "SessionHandshake"
        /\ ph = "sync" => sessProtocol = "SessionSync"

====
